---- MODULE Spec2Model ----
(***************************************************************************)
(* nfdump2parquet: the bin-packing coalescer and batch compaction of       *)
(* coalesce.py, and the worker pool driven by watch.py, watch2ch.py and    *)
(* nfdump2parquet.py.                                                      *)
(***************************************************************************)
EXTENDS Integers, Sequences, FiniteSets, TLC

(***************************************************************************)
(* Bounds of the model.                                                    *)
(***************************************************************************)
\* longest input sequence handed to coalesce
MaxItems == 4
\* largest size of one item
MaxItemSize == 3
\* largest ceiling max_size
MaxCeiling == 2
\* number of date directories under the base directory (days 1..MaxDay)
MaxDay == 2
\* number of source parquet files in the tree
MaxFiles == 2
\* the ceiling of coalesce_parquets (2**20 rows in the code, whose batches
\* hold at most 65536 rows), scaled to the batches of FileContents
MaxGroupRows == 3
\* most worker processes of a pool (watch targets, or the -p option)
MaxWorkers == 2
\* most jobs submitted to a pool in one run
MaxJobs == 2
\* most file system events dispatched to the handler in one run
MaxEvents == 2
\* number of distinct capture timestamps
MaxStamps == 2
\* most termination signals delivered to worker processes in one run
MaxSignals == 1
\* most sections of a configuration file
MaxSections == 2

VARIABLES
    \* ---- coalesce (coalesce.py:56-81), one run of the generator
    items,          \* the input iterable, a sequence of [id, size]
    max_size,       \* the ceiling
    pos,            \* index of the next item the for loop takes
    batch,          \* the local list `batch`
    current_size,   \* the local `current_size`
    groups,         \* the groups yielded so far, in order
    cpc,            \* "idle" | "loop" | "done"
    \* ---- batch compaction (coalesce.py:245-283)
    datenow,        \* the wall-clock day taken at invocation (line 257)
    fs,             \* the files under the base directory: [dir, name, data]
    rpc,            \* where main is: "idle" | "start" | "partition" |
                    \* "stream" | "remove" | "done" | "crashed"
    plan,           \* the (date, hour) directories main walks, in order
    cur,            \* index in plan of the directory being coalesced
    files,          \* sorted(list_files(...)) of that directory
    tpos,           \* tables pulled from stream_from_files so far
    tbatch,         \* coalesce's local `batch` (a list of tables)
    tsize,          \* coalesce's local `current_size`
    pending,        \* the groups yielded and not yet written (at most one)
    exhausted,      \* the coalesce generator has returned
    writer,         \* [open, schema]: the ParquetWriter of stream_to_parquet
    ridx,           \* index in files of the next os.remove
    touched,        \* file operations performed so far: [op, dir]
    wrote,          \* directories whose output was written and closed
    \* ---- the worker pool (watch.py, watch2ch.py, nfdump2parquet.py)
    program,        \* "watch" | "watch2ch" | "batch" | "none"
    watches,        \* len(watches), or args.p of the batch conversion
    step,           \* 0 in main's loop, then the index in MainBlock
    sig_received,   \* the global flag of watch.py:23
    observer,       \* "running" | "stopped" | "joined" | "none"
    loggerp,        \* the logger process: "running" | "exited"
    poolState,      \* "RUN" | "CLOSE"
    jobs,           \* the jobs submitted: [st, res, okcb, errcb]
    inqueue,        \* the pool's task queue, job ids
    worker,         \* the job each worker process runs, 0 when idle
    outqueue,       \* outcomes waiting for the result handler thread
    handler,        \* the result handler thread: "alive" | "dead"
    cache,          \* jobs whose outcome the pool still waits for
    atClose,        \* the jobs unfinished when pool.close() ran
    vocab,          \* the events the observer may deliver in this run
    evlog,          \* the events dispatched to the handler, in order
    submitted,      \* per job: [src, ev], its source file and the index
                    \* in evlog of the event that submitted it (0: batch)
    filelist,       \* the batch conversion's sorted list of source files
    signalled,      \* jobs whose worker got SIGINT or SIGTERM mid-job
    opts,           \* the command line options -f and --nohives of the run
    written,        \* the files the jobs left under the destination root
    logq,           \* the shared logging queue of the batch conversion
    logged,         \* the records the logger process has handled, in order
    \* ---- the start of an entry point (main of watch.py, watch2ch.py,
    \* coalesce.py)
    cmd,            \* the command line and what it names on disk
    spc,            \* the position in main
    targets,        \* the list 'watches' of main
    exit_status     \* {} while the process runs, then {its exit status}

coalVars == <<items, max_size, pos, batch, current_size, groups, cpc>>

compVars == <<datenow, fs, rpc, plan, cur, files, tpos, tbatch, tsize,
              pending, exhausted, writer, ridx, touched, wrote>>

poolVars == <<program, watches, step, sig_received, observer, loggerp,
              poolState, jobs, inqueue, worker, outqueue, handler, cache,
              atClose, vocab, evlog, submitted, filelist, signalled,
              opts, written, logq, logged>>

startVars == <<cmd, spc, targets, exit_status>>

vars == <<coalVars, compVars, poolVars, startVars>>

(***************************************************************************)
(* Helpers on sequences.                                                   *)
(***************************************************************************)
RECURSIVE SumSeq(_)
SumSeq(s) == IF s = <<>> THEN 0 ELSE Head(s) + SumSeq(Tail(s))

\* the total size of a group, from the sizes of its items
SumSizes(sizes) == SumSeq(sizes)

RECURSIVE Flatten(_)
Flatten(ss) ==
    IF ss = <<>> THEN <<>> ELSE Head(ss) \o Flatten(Tail(ss))

SeqsUpTo(S, n) == UNION { [1..k -> S] : k \in 0..n }

(***************************************************************************)
(* coalesce(items, max_size, sizer)                                        *)
(***************************************************************************)
\* the sizer of the docstring example: an item's size is a field of the item
ItemSize(item) == item.size

\* the test of line 74 with the size of the incoming item left out
ClosesGroupLate(csize, this_size, ceiling) == csize > ceiling

\* the test of line 74 closing a group that the item would fill exactly
ClosesGroupAtCeiling(csize, this_size, ceiling) == csize + this_size >= ceiling

\* line 74: does adding this item overflow the current group?
ClosesGroup(csize, this_size, ceiling) == csize + this_size > ceiling

\* one iteration with current_size carried over into the new group
CoalesceIterKeepsSize(b, csize, item, ceiling, this_size) ==
    IF csize + this_size > ceiling
    THEN [batch |-> <<item>>, current_size |-> csize + this_size,
          yielded |-> <<b>>]
    ELSE [batch |-> Append(b, item), current_size |-> csize + this_size,
          yielded |-> <<>>]

\* lines 73-79: one iteration of the for loop, on the generator's locals;
\* `yielded` is the sequence of groups handed out by this iteration
\* (this_size is sizer(item), line 73)
CoalesceIter(b, csize, item, ceiling, this_size) ==
    IF ClosesGroup(csize, this_size, ceiling)
    THEN [batch |-> <<item>>, current_size |-> this_size, yielded |-> <<b>>]
    ELSE [batch |-> Append(b, item), current_size |-> csize + this_size,
          yielded |-> <<>>]

\* a trailing group yielded whether or not the batch holds anything
CoalesceTailAlways(b) == <<b>>

\* the end of the generator with the trailing yield forgotten
CoalesceTailDropped(b) == <<>>

\* lines 80-81: the trailing group is yielded when it is not empty
CoalesceTail(b) == IF b # <<>> THEN <<b>> ELSE <<>>

\* a sequence of items of the given sizes
ItemsOf(s) == [i \in DOMAIN s |-> [id |-> i, size |-> s[i]]]

\* the doctest of lines 67-68: the items, each its own size, and max_size
ExampleSizes == <<1, 2, 11, 4, 4, 1, 2>>

ExampleCeiling == 10

\* every short input under a small ceiling, and the doctest's input
CoalesceInit ==
    /\ \/ /\ items \in { ItemsOf(s) : s \in SeqsUpTo(0..MaxItemSize, MaxItems) }
          /\ max_size \in 1..MaxCeiling
       \/ /\ items = ItemsOf(ExampleSizes)
          /\ max_size = ExampleCeiling
    /\ pos = 1
    /\ batch = <<>>
    /\ current_size = 0
    /\ groups = <<>>
    /\ cpc = "loop"

CoalesceIdle ==
    /\ items = <<>>
    /\ max_size = 1
    /\ pos = 1
    /\ batch = <<>>
    /\ current_size = 0
    /\ groups = <<>>
    /\ cpc = "idle"

\* the for loop takes the next item (lines 72-79)
CoalesceNextItem ==
    /\ cpc = "loop"
    /\ pos <= Len(items)
    /\ LET r == CoalesceIter(batch, current_size, items[pos], max_size,
                            ItemSize(items[pos]))
       IN /\ batch' = r.batch
          /\ current_size' = r.current_size
          /\ groups' = groups \o r.yielded
    /\ pos' = pos + 1
    /\ UNCHANGED <<items, max_size, cpc>>
    /\ UNCHANGED <<compVars, poolVars, startVars>>

\* the input is exhausted (lines 80-81)
CoalesceExhausted ==
    /\ cpc = "loop"
    /\ pos > Len(items)
    /\ groups' = groups \o CoalesceTail(batch)
    /\ cpc' = "done"
    /\ UNCHANGED <<items, max_size, pos, batch, current_size>>
    /\ UNCHANGED <<compVars, poolVars, startVars>>

(***************************************************************************)
(* Batch compaction: the directory tree and the file names.                *)
(***************************************************************************)
Days == 1..MaxDay

\* the hour buckets of a date directory
Hours == {0, 23}

\* line 258: now.strftime('%Y-%m-%d'), the label of a day
Strftime(day) == [y |-> "2022", m |-> "11", d |-> day]

\* the name of a directory entry: a prefix followed by a label
DateDir(day) == [prefix |-> "date=", label |-> Strftime(day)]

HourDir(h) == [prefix |-> "hour=", label |-> h]

\* an entry of the base directory that is no date directory
OtherDir == [prefix |-> "tmp-", label |-> Strftime(1)]

\* the entries of the base directory, and of every date directory
BaseEntries == { DateDir(d) : d \in Days } \cup {OtherDir}

DateEntries == { HourDir(h) : h \in Hours }

\* the (date, hour) directories that hold files
Dirs == { [datedir |-> DateDir(d), hourdir |-> HourDir(h)] :
            d \in Days, h \in Hours }

\* str.startswith and str.endswith on a directory name (lines 220, 262)
StartsWith(name, prefix) == name.prefix = prefix

EndsWith(name, suffix) == name.label = suffix

\* digits of the %Y that opens the date label
YearDigits == 4
\* digits of the timestamp that opens a converted file's name
TimestampDigits == 12
\* digits the pattern of line 275 asks for
PatternDigits == 12

\* a name is its count of leading digits, a stem and an extension
\* nfdump2parquet.py:415: '<12 digits>-chunk-<n>-part-<i>.parquet'
SrcName(k) == [lead |-> TimestampDigits, stem |-> <<k>>, ext |-> ".parquet"]

\* line 281: f'{datestr}-{hourstr}:00.parquet'
OutName(datestr, hourstr) ==
    [lead |-> YearDigits, stem |-> <<datestr, hourstr>>, ext |-> ".parquet"]

\* line 279-280: datedir.split('=')[-1]
SplitLabel(name) == name.label

OutNameOf(dir) == OutName(SplitLabel(dir.datedir), SplitLabel(dir.hourdir))

\* the pattern of line 275 without its leading \d{12}
RegexMatchAnyParquet(name) == name.ext = ".parquet"

\* line 275: re.match('\d{12}.*\.parquet', name)
RegexMatch(name) == name.lead >= PatternDigits /\ name.ext = ".parquet"

RECURSIVE SortKeys(_)
SortKeys(S) ==
    IF S = {} THEN <<>>
    ELSE LET m == CHOOSE x \in S : \A y \in S : x <= y
         IN <<m>> \o SortKeys(S \ {m})

\* sorted() of a set of names whose order is the order of Key
\* (key is the function from a name to its place in the order)
SortBy(S, key) ==
    LET ks == SortKeys({ key[e] : e \in S })
    IN [i \in DOMAIN ks |-> CHOOSE e \in S : key[e] = ks[i]]

Reverse(s) == [i \in DOMAIN s |-> s[Len(s) + 1 - i]]

DayOf(datedir) == datedir.label.d

HourOf(hourdir) == hourdir.label

TsOf(name) == name.stem[1]

\* lines 209-223: the sub-directories whose name starts with the pattern
list_dirs(entries, pattern) == { e \in entries : StartsWith(e, pattern) }

\* the filter of line 262 with the current date kept
KeepsEveryDate(date, now) == TRUE

\* line 262: the current date is dropped from the list
NotToday(date, now) == ~EndsWith(date, Strftime(now))

\* lines 256-268: date_hour_dict, flattened in the order main walks it
DateHourPlan(now) ==
    LET datelist == SortBy({ e \in list_dirs(BaseEntries, "date=") :
                               NotToday(e, now) },
                         [e \in BaseEntries |-> DayOf(e)])
        hourlist == SortBy(list_dirs(DateEntries, "hour="),
                          [e \in DateEntries |-> HourOf(e)])
    IN Flatten([i \in DOMAIN datelist |->
                  [j \in DOMAIN hourlist |->
                     [datedir |-> datelist[i], hourdir |-> hourlist[j]]]])

\* lines 227-241: the files of a directory whose name matches the pattern
list_files(dir) == { f.name : f \in { g \in fs : g.dir = dir /\ RegexMatch(g.name) } }

\* the file list of line 275 in descending order
SortedFilesDescending(dir) == Reverse(SortBy(list_files(dir), [n \in list_files(dir) |-> TsOf(n)]))

\* line 275: sorted(list_files(...))
SortedFiles(dir) == SortBy(list_files(dir), [n \in list_files(dir) |-> TsOf(n)])

(***************************************************************************)
(* Parquet files: a schema and a sequence of row batches.                  *)
(***************************************************************************)
\* what a source file may hold: a schema and the row counts of its batches
FileContents ==
    { [schema |-> "narrow", shape |-> <<>>],
      [schema |-> "narrow", shape |-> <<1>>],
      [schema |-> "narrow", shape |-> <<2, 1>>],
      [schema |-> "wide",   shape |-> <<2, 2>>] }

NoFile == [schema |-> "absent", shape |-> <<>>]

MakeData(k, c) ==
    [schema |-> c.schema,
     batches |-> [b \in DOMAIN c.shape |->
                    [i \in 1..c.shape[b] |-> [src |-> k, bat |-> b, n |-> i]]]]

\* the output artifact an earlier compaction left
OldOutput == MakeData(0, [schema |-> "narrow", shape |-> <<1>>])

DataOf(dir, name) == (CHOOSE f \in fs : f.dir = dir /\ f.name = name).data

Exists(dir, name) == \E f \in fs : f.dir = dir /\ f.name = name

\* lines 47-50: the tables of one file, one per record batch
stream_from_parquet(dir, name) ==
    LET data == DataOf(dir, name)
    IN [b \in DOMAIN data.batches |->
          [schema |-> data.schema, rows |-> data.batches[b]]]

\* lines 84-89: the tables of the files, file after file
stream_from_files(dir, in_files) ==
    Flatten([i \in DOMAIN in_files |-> stream_from_parquet(dir, in_files[i])])

\* the default sizer of coalesce: len(table), its number of rows
TableLen(t) == Len(t.rows)

\* pa.concat_tables(group) raises on an empty list and on differing schemas
ConcatOK(group) ==
    /\ group # <<>>
    /\ \A i \in DOMAIN group : group[i].schema = group[1].schema

\* line 98: pa.concat_tables(group)
concat_tables(group) ==
    [schema |-> group[1].schema,
     rows |-> Flatten([i \in DOMAIN group |-> group[i].rows])]

\* table.cast(schema) widens, and raises when values would be narrowed
Castable(from, to) == from = to \/ (from = "narrow" /\ to = "wide")

\* the later table written as it came, without the cast
CastSkipped(table, schema) == table

\* line 43: table.cast(schema)
Cast(table, schema) == [schema |-> schema, rows |-> table.rows]

\* the rows of a sequence of tables or batches, in order
RowsOfTables(ts) == Flatten([i \in DOMAIN ts |-> ts[i].rows])

(***************************************************************************)
(* main of coalesce.py                                                     *)
(***************************************************************************)
FsOf(place, old) ==
    { [dir |-> place[k][1], name |-> SrcName(k), data |-> MakeData(k, place[k][2])] :
        k \in { j \in DOMAIN place : place[j][2] # NoFile } }
    \cup { [dir |-> d, name |-> OutNameOf(d), data |-> OldOutput] : d \in old }

NoWriter == [open |-> FALSE, schema |-> "none"]

CompactInit ==
    /\ datenow \in Days
    /\ fs \in { FsOf(place, old) :
                  place \in [1..MaxFiles ->
                               (Dirs \X FileContents)
                               \cup { <<CHOOSE d \in Dirs : TRUE, NoFile>> }],
                  old \in {{}, Dirs} }
    /\ rpc = "start"
    /\ plan = <<>>
    /\ cur = 1
    /\ files = <<>>
    /\ tpos = 0
    /\ tbatch = <<>>
    /\ tsize = 0
    /\ pending = <<>>
    /\ exhausted = FALSE
    /\ writer = NoWriter
    /\ ridx = 1
    /\ touched = {}
    /\ wrote = {}

CompactIdle ==
    /\ datenow = 1
    /\ fs = {}
    /\ rpc = "idle"
    /\ plan = <<>>
    /\ cur = 1
    /\ files = <<>>
    /\ tpos = 0
    /\ tbatch = <<>>
    /\ tsize = 0
    /\ pending = <<>>
    /\ exhausted = FALSE
    /\ writer = NoWriter
    /\ ridx = 1
    /\ touched = {}
    /\ wrote = {}

\* lines 256-268: the plan is made from the directories and the date
MainListDirs ==
    /\ rpc = "start"
    /\ plan' = DateHourPlan(datenow)
    /\ cur' = 1
    /\ rpc' = IF plan' = <<>> THEN "done" ELSE "partition"
    /\ UNCHANGED <<datenow, fs, files, tpos, tbatch, tsize, pending,
                   exhausted, writer, ridx, touched, wrote>>
    /\ UNCHANGED <<coalVars, poolVars, startVars>>

\* the for loops of lines 272-273 move to the next directory, or end
AfterDir == IF cur < Len(plan) THEN "partition" ELSE "done"

\* lines 274-278: the matching files of the directory are listed; with
\* none the directory is skipped, otherwise coalesce_parquets is entered
MainListFiles ==
    /\ rpc = "partition"
    /\ files' = SortedFiles(plan[cur])
    /\ IF files' = <<>>
       THEN /\ rpc' = AfterDir
            /\ cur' = cur + 1
       ELSE /\ rpc' = "stream"
            /\ cur' = cur
    /\ tpos' = 0
    /\ tbatch' = <<>>
    /\ tsize' = 0
    /\ pending' = <<>>
    /\ exhausted' = FALSE
    /\ writer' = NoWriter
    /\ ridx' = 1
    /\ UNCHANGED <<datenow, fs, plan, touched, wrote>>
    /\ UNCHANGED <<coalVars, poolVars, startVars>>

\* the sink asks for a table and coalesce pulls the next batch from the
\* files (lines 72-79 over stream_from_files)
StreamRead ==
    /\ rpc = "stream"
    /\ pending = <<>>
    /\ ~exhausted
    /\ LET tables == stream_from_files(plan[cur], files)
       IN /\ tpos < Len(tables)
          /\ LET r == CoalesceIter(tbatch, tsize, tables[tpos + 1],
                                   MaxGroupRows, TableLen(tables[tpos + 1]))
             IN /\ tbatch' = r.batch
                /\ tsize' = r.current_size
                /\ pending' = r.yielded
    /\ tpos' = tpos + 1
    /\ touched' = touched \cup {[op |-> "read", dir |-> plan[cur]]}
    /\ UNCHANGED <<datenow, fs, rpc, plan, cur, files, exhausted, writer,
                   ridx, wrote>>
    /\ UNCHANGED <<coalVars, poolVars, startVars>>

\* the files are exhausted: coalesce yields its trailing group and returns
\* (lines 80-81)
StreamEnd ==
    /\ rpc = "stream"
    /\ pending = <<>>
    /\ ~exhausted
    /\ tpos = Len(stream_from_files(plan[cur], files))
    /\ pending' = CoalesceTail(tbatch)
    /\ exhausted' = TRUE
    /\ UNCHANGED <<datenow, fs, rpc, plan, cur, files, tpos, tbatch, tsize,
                   writer, ridx, touched, wrote>>
    /\ UNCHANGED <<coalVars, poolVars, startVars>>

\* the output artifact of a directory after one more table is written
Written(dir, table) ==
    LET out == OutNameOf(dir)
        before == IF writer.open THEN DataOf(dir, out).batches ELSE <<>>
    IN { f \in fs : ~(f.dir = dir /\ f.name = out) }
       \cup { [dir |-> dir, name |-> out,
               data |-> [schema |-> table.schema,
                         batches |-> Append(before, table.rows)]] }

\* the output artifact as the opening of the writer leaves it: empty
Opened(dir, schema) ==
    LET out == OutNameOf(dir)
    IN { f \in fs : ~(f.dir = dir /\ f.name = out) }
       \cup { [dir |-> dir, name |-> out,
               data |-> [schema |-> schema, batches |-> <<>>]] }

\* lines 98 and 36-44: the group is concatenated and written; the first
\* table opens the writer with its schema, a later one is cast to it.
\* io is what the file system does: "ok", or the open or the write fails.
StreamWrite ==
    /\ rpc = "stream"
    /\ pending # <<>>
    /\ \E io \in {"ok", "open fails", "write fails"} :
         LET group == pending[1]
             dir == plan[cur]
         IN IF ~ConcatOK(group)
            THEN /\ rpc' = "crashed"
                 /\ UNCHANGED <<fs, writer, touched>>
            ELSE LET table == concat_tables(group) IN
                 IF ~writer.open
                 THEN /\ writer' = [open |-> io # "open fails",
                                    schema |-> table.schema]
                      /\ fs' = IF io = "ok" THEN Written(dir, table)
                               ELSE IF io = "write fails"
                                    THEN Opened(dir, table.schema)
                                    ELSE fs
                      /\ touched' = IF io = "open fails" THEN touched
                                    ELSE touched \cup {[op |-> "write", dir |-> dir]}
                      /\ rpc' = IF io = "ok" THEN "stream" ELSE "crashed"
                 ELSE /\ io # "open fails"
                      /\ IF Castable(table.schema, writer.schema) /\ io = "ok"
                         THEN /\ fs' = Written(dir, Cast(table, writer.schema))
                              /\ rpc' = "stream"
                         ELSE /\ fs' = fs
                              /\ rpc' = "crashed"
                      /\ UNCHANGED <<writer, touched>>
    /\ pending' = <<>>
    /\ UNCHANGED <<datenow, plan, cur, files, tpos, tbatch, tsize, exhausted,
                   ridx, wrote>>
    /\ UNCHANGED <<coalVars, poolVars, startVars>>

\* stream_to_parquet returns (line 38, or the end of the with block):
\* the writer, when one was opened, is closed; main goes on to line 282
StreamClose ==
    /\ rpc = "stream"
    /\ pending = <<>>
    /\ exhausted
    /\ wrote' = IF writer.open THEN wrote \cup {plan[cur]} ELSE wrote
    /\ writer' = NoWriter
    /\ rpc' = "remove"
    /\ ridx' = 1
    /\ UNCHANGED <<datenow, fs, plan, cur, files, tpos, tbatch, tsize,
                   pending, exhausted, touched>>
    /\ UNCHANGED <<coalVars, poolVars, startVars>>

\* lines 282-283: os.remove of the next file of the list; after the last
\* one main moves to the next directory
RemoveFile ==
    /\ rpc = "remove"
    /\ ridx <= Len(files)
    /\ fs' = { f \in fs : ~(f.dir = plan[cur] /\ f.name = files[ridx]) }
    /\ touched' = touched \cup {[op |-> "delete", dir |-> plan[cur]]}
    /\ ridx' = ridx + 1
    /\ IF ridx = Len(files)
       THEN /\ rpc' = AfterDir
            /\ cur' = cur + 1
       ELSE UNCHANGED <<rpc, cur>>
    /\ UNCHANGED <<datenow, plan, files, tpos, tbatch, tsize, pending,
                   exhausted, writer, wrote>>
    /\ UNCHANGED <<coalVars, poolVars, startVars>>

(***************************************************************************)
(* Capture files: paths, the patterns that select them and the names of    *)
(* the files a conversion writes.  A path is a sequence of pieces, each a  *)
(* literal text or a run of digits, so that matching and slicing work on   *)
(* what the name is made of.                                               *)
(***************************************************************************)
\* digits the patterns ask for after the prefix (nfdump2parquet.py:25)
CaptureDigits == 12

Stamps == 1..MaxStamps

Lit(text) == [cls |-> "lit", text |-> text, num |-> 0, len |-> Len(text), skip |-> 0]

\* a run of n digits; runs with the same num start with the same digits
DigitRun(t, n) == [cls |-> "digits", text |-> "", num |-> t, len |-> n, skip |-> 0]

Slash == Lit("/")

\* the names a capture directory may hold for a timestamp
CanonName(t) == <<Lit("nfcapd"), Lit("."), DigitRun(t, CaptureDigits)>>

TrailingName(t) == CanonName(t) \o <<Lit(".tmp")>>

LongName(t) == <<Lit("nfcapd"), Lit("."), DigitRun(t, CaptureDigits + 1)>>

ShortName(t) == <<Lit("nfcapd"), Lit("."), DigitRun(t, CaptureDigits - 1)>>

DashName(t) == <<Lit("nfcapd"), Lit("-"), DigitRun(t, CaptureDigits)>>

CurrentName == <<Lit("nfcapd"), Lit("."), Lit("current")>>

\* the watched directory and a directory below it
TopDir == <<Slash, Lit("flows")>>

SubDir == TopDir \o <<Slash, Lit("sub")>>

PathOf(dir, name) == dir \o <<Slash>> \o name

\* os.path.basename: what follows the last separator
RECURSIVE Basename(_)
Basename(path) ==
    IF path = <<>> \/ path[Len(path)] = Slash THEN <<>>
    ELSE Append(Basename(SubSeq(path, 1, Len(path) - 1)), path[Len(path)])

\* os.path.dirname: what precedes the last separator
RECURSIVE Dirname(_)
Dirname(path) ==
    IF path = <<>> THEN <<>>
    ELSE IF path[Len(path)] = Slash THEN SubSeq(path, 1, Len(path) - 1)
    ELSE Dirname(SubSeq(path, 1, Len(path) - 1))

\* the number of characters of a piece, and of a name
PieceLen(p) == p.len - p.skip

\* s[-n:], the last n characters of a name (the whole name when shorter)
RECURSIVE LastChars(_, _)
LastChars(s, n) ==
    IF n <= 0 \/ s = <<>> THEN <<>>
    ELSE LET p == s[Len(s)]
             front == SubSeq(s, 1, Len(s) - 1)
         IN IF PieceLen(p) <= n
            THEN Append(LastChars(front, n - PieceLen(p)), p)
            ELSE <<[p EXCEPT !.skip = p.len - n]>>

\* do the pieces from index i on start with 'nfcapd', one separator
\* character accepted by sep, and at least CaptureDigits digits?
\* (re.match anchors the start only, so anything may follow)
PrefixAt(s, i, seps) ==
    /\ i + 2 <= Len(s)
    /\ s[i] = Lit("nfcapd")
    /\ s[i + 1].cls = "lit" /\ s[i + 1].len = 1 /\ s[i + 1].text \in seps
    /\ s[i + 2].cls = "digits" /\ PieceLen(s[i + 2]) >= CaptureDigits

\* the characters the unescaped dot of '.*/nfcapd.\d{12}' accepts
AnyChar == {".", "-"}

\* watch.py:31, watch2ch.py:38: re.match('.*/nfcapd.\d{12}', path)
WatchRegexMatch(path) ==
    \E i \in DOMAIN path : path[i] = Slash /\ PrefixAt(path, i + 1, AnyChar)

\* nfdump2parquet.py:25 and 310: re.match("nfcapd\.\d{12}", entry.name)
BatchRegexMatch(name) == PrefixAt(name, 1, {"."})

\* the name is the prefix 'nfcapd.' and exactly twelve digits, nothing else
IsCaptureName(name) == \E t \in Stamps : name = CanonName(t)

(***************************************************************************)
(* File system events and the handler of the watch programs.               *)
(***************************************************************************)
\* the dest_path of an event that has none (other events), or None
NoPath == <<>>

NonePath == <<Lit("None")>>

Event(type, isdir, src, dest) ==
    [event_type |-> type, is_directory |-> isdir, src_path |-> src,
     dest_path |-> dest]

Created(path) == Event("created", FALSE, path, NoPath)

Moved(src, dest) == Event("moved", FALSE, src, dest)

\* the capture file of a timestamp in the watched directory, and the file
\* of the same name in a directory below it
CapturePath(t) == PathOf(TopDir, CanonName(t))

NestedPath(t) == PathOf(SubDir, CanonName(t))

\* the names files take in a watched directory
WatchedNames ==
    { CanonName(1), TrailingName(1), LongName(1), ShortName(1), DashName(1),
      CurrentName }

\* every event the observer may deliver in a run
AllEvents ==
    { Created(PathOf(TopDir, n)) : n \in WatchedNames }
    \cup { Created(NestedPath(1)),
           Event("created", TRUE, CapturePath(1), NoPath),
           Event("modified", FALSE, CapturePath(1), NoPath),
           Event("deleted", FALSE, CapturePath(1), NoPath) }
    \cup { Moved(PathOf(TopDir, s), d) :
             s \in {CurrentName, CanonName(1)},
             d \in { PathOf(TopDir, n) :
                       n \in {CanonName(1), TrailingName(1), CurrentName} }
                   \cup {NonePath} }

\* events of finished capture files only: a capture file appears in the
\* watched directory
CaptureEvents == { {Created(CapturePath(1))} }

\* os.fsdecode raises TypeError on None
FsdecodeRaises(path) == path = NonePath

\* RegexMatchingEventHandler.dispatch collects dest_path, when the event
\* has one, and src_path
EventPaths(e) ==
    (IF e.event_type = "moved" THEN {e.dest_path} ELSE {}) \cup {e.src_path}

\* the filename filter: some path of the event matches the regex
PassesFilter(e) == \E p \in EventPaths(e) : WatchRegexMatch(p)

\* the handler with on_moved converting the path the file was moved from
HandlerOutcomeMovedFrom(e) ==
    IF e.is_directory THEN [act |-> "ignored", path |-> NoPath]
    ELSE IF e.event_type = "moved" /\ FsdecodeRaises(e.dest_path)
    THEN [act |-> "TypeError", path |-> NoPath]
    ELSE IF ~PassesFilter(e) THEN [act |-> "ignored", path |-> NoPath]
    ELSE IF e.event_type \in {"created", "moved"}
    THEN [act |-> "convert", path |-> e.src_path]
    ELSE [act |-> "ignored", path |-> NoPath]

\* what dispatch (watch.py:70-79) does with an event: "ignored", the
\* "TypeError" it catches and logs, or the path handed to __convert by
\* on_created (src_path) and on_moved (dest_path)
HandlerOutcome(e) ==
    IF e.is_directory THEN [act |-> "ignored", path |-> NoPath]
    ELSE IF e.event_type = "moved" /\ FsdecodeRaises(e.dest_path)
    THEN [act |-> "TypeError", path |-> NoPath]
    ELSE IF ~PassesFilter(e) THEN [act |-> "ignored", path |-> NoPath]
    ELSE IF e.event_type = "created"
    THEN [act |-> "convert", path |-> e.src_path]
    ELSE IF e.event_type = "moved"
    THEN [act |-> "convert", path |-> e.dest_path]
    ELSE [act |-> "ignored", path |-> NoPath]

\* the dispatch inherited from RegexMatchingEventHandler, not overridden:
\* the TypeError leaves dispatch and ends the observer's thread
ObserverAfterUncaught(act, obs) == IF act = "TypeError" THEN "dead" ELSE obs

\* watch.py:70-79, watch2ch.py:74-83: dispatch catches the TypeError and
\* logs it; the observer's thread goes on to its next event
ObserverAfter(act, obs) == obs

(***************************************************************************)
(* The source directory of the batch conversion.                           *)
(***************************************************************************)
\* what the source directory may hold
BatchTrees ==
    { {CapturePath(1), NestedPath(1)},
      {CapturePath(1), CapturePath(MaxStamps), PathOf(TopDir, CurrentName)},
      {CapturePath(1), PathOf(TopDir, TrailingName(1)),
       PathOf(TopDir, ShortName(1))} }

\* is the file in the directory, or below it?
IsBelow(dir, path) ==
    Len(dir) <= Len(Dirname(path)) /\ SubSeq(path, 1, Len(dir)) = dir

\* nfdump2parquet.py:299-315: the files of the directory, and of the
\* directories below it when recursive, whose name matches the pattern
list_capture_files(tree, directory, recursive) ==
    { p \in tree :
        /\ IF recursive THEN IsBelow(directory, p) ELSE Dirname(p) = directory
        /\ BatchRegexMatch(Basename(p)) }

\* the place of a name, and of a path, in the order of strings
NameRank(n) ==
    IF n[3].cls = "lit" THEN 9999
    ELSE (IF n[2].text = "-" THEN 0 ELSE 1000) + 10 * n[3].num
         + (IF Len(n) > 3 THEN 2
            ELSE IF n[3].len < CaptureDigits THEN 0
            ELSE IF n[3].len = CaptureDigits THEN 1 ELSE 3)

PathRank(p) ==
    (IF Dirname(p) = TopDir THEN 0 ELSE 10000) + NameRank(Basename(p))

\* nfdump2parquet.py:524-530: filelist of a source directory, sorted
BatchFileList(tree, recursive) ==
    LET found == list_capture_files(tree, TopDir, recursive)
    IN SortBy(found, [p \in found |-> PathRank(p)])

\* the hour the timestamp in a capture file's name falls in (each timestamp
\* of the model lies in an hour of its own); none for a name without one
NameHours(src_file) ==
    LET name == Basename(src_file)
    IN { name[i].num : i \in { k \in DOMAIN name : name[k].cls = "digits" } }

\* what a capture file may hold: the hours the end times ('te') of its flows
\* fall in.  A flow may have ended before the interval the file is named
\* after began.
FlowContents(src_file) ==
    LET hs == IF NameHours(src_file) = {} THEN {0} ELSE NameHours(src_file)
    IN { hs, hs \cup { h - 1 : h \in hs } }

\* the values of -f the model runs with: the default '' and a name
FlowSrcs == {"", "rtr"}

\* the options a run is started with: -f of watch.py (watch.py:185-192),
\* -f and --nohives of nfdump2parquet.py (nfdump2parquet.py:259-279)
RunOptions(prog) ==
    CASE prog = "watch" -> { [f |-> x, nohives |-> FALSE] : x \in FlowSrcs }
      [] prog = "batch" -> { [f |-> "", nohives |-> n] : n \in BOOLEAN }
      [] OTHER -> { [f |-> "", nohives |-> FALSE] }

\* how the arguments of apply_async bind to convert(src_file, dst_dir,
\* hives=True, flowsrc='', ...) (nfdump2parquet.py:338).  watch.py:51 passes
\* args=(source_file, dest_dir, flowsrc): its third positional argument
\* lands in 'hives', which is then tested for truth (line 417), and
\* 'flowsrc' keeps its default.  nfdump2parquet.py:538-545 passes keywords.
ConvertArgs(prog, o) ==
    IF prog = "watch"
    THEN [hives |-> o.f # "", flowsrc |-> ""]
    ELSE [hives |-> ~o.nohives, flowsrc |-> o.f]

\* nfdump2parquet.py:389: basename = os.path.basename(src_file)[-12:]
OutputStem(src_file) == LastChars(Basename(src_file), TimestampDigits)

\* nfdump2parquet.py:409-435: the file write_dataset leaves for the flows
\* that ended in hour h: under the hive partition of h ('date=.../hour=..',
\* from __trunc_datetime of the 'te' column, lines 319-334) when hives is
\* true, directly under the root otherwise
DestPath(src_file, h, hives) ==
    [partition |-> IF hives THEN <<h>> ELSE <<>>,
     stem |-> OutputStem(src_file), chunk |-> 1, part |-> 0]

\* nfdump2parquet.py:415-447: the files a conversion leaves under dst_dir,
\* '<date>/<hour>/<basename>-chunk-<n>-part-<i>.parquet', for a capture
\* file read as one chunk whose flows ended in the hours hs
DestPaths(src_file, hs, hives) ==
    { DestPath(src_file, h, hives) : h \in hs }

(***************************************************************************)
(* The worker pool of watch.py, watch2ch.py and nfdump2parquet.py: a       *)
(* multiprocessing Pool fed by apply_async, whose result handler thread    *)
(* runs the callbacks.                                                     *)
(***************************************************************************)
WatchPrograms == {"watch", "watch2ch"}

\* what happens to the file of a job while convert runs
FileKinds == {"ok", "missing", "nodecoder", "parseerr", "casterr"}

\* the job-level errors among them: the source file is missing, the
\* decoder cannot be invoked, the CSV cannot be parsed, the write fails
ErrorKinds == FileKinds \ {"ok"}

\* one worker more than asked for
PoolSizePlusOne(n) == n + 1

\* watch.py:314 Pool(len(watches), init_worker); nfdump2parquet.py:533
\* Pool(args.p): the number of worker processes
PoolSize(n) == n

Workers == 1..PoolSize(watches)

\* what convert hands to the pool: nfdump2parquet.py:338-455 (watch.py and
\* the batch conversion) and watch2ch.py:225-338
ConvertOutcome(prog, kind) ==
    CASE kind = "missing" ->
           \* raise FileNotFoundError(src_file)
           [success |-> FALSE, value |-> "FileNotFoundError"]
      [] kind = "nodecoder" ->
           \* subprocess.run raised: the error is logged, a bare return
           [success |-> TRUE, value |-> "None"]
      [] kind = "parseerr" ->
           \* pyarrow.lib.ArrowInvalid is caught and logged (nfdump2parquet.py
           \* 439-440, watch2ch.py 306-307); convert goes on to its return
           [success |-> TRUE,
            value |-> IF prog = "watch2ch" THEN "dict" ELSE "str"]
      [] kind = "casterr" ->
           \* an exception other than ArrowInvalid leaves convert
           [success |-> FALSE, value |-> "ArrowTypeError"]
      [] OTHER ->
           \* return sf (a str), or return info_return (a dict)
           [success |-> TRUE,
            value |-> IF prog = "watch2ch" THEN "dict" ELSE "str"]

\* the temporary files of its own a conversion leaves behind when it ends.
\* nfdump2parquet.py: mkstemp (line 371) and mkdtemp (line 378) come after
\* the test for the source file; the removals are the last statements
\* before the return (lines 451-453), so the early return of line 385 and
\* an exception that leaves convert skip them.  watch2ch.py: the CSV file
\* (line 264) is removed at line 321 and the parquet file (line 279) at
\* line 336, both skipped in the same way.
TempLeft(prog, kind) ==
    CASE kind = "missing" -> {}
      [] kind = "nodecoder" ->
           IF prog = "watch2ch" THEN {"csv"} ELSE {"csv", "dir"}
      [] kind = "casterr" ->
           IF prog = "watch2ch" THEN {"csv", "parquet"} ELSE {"csv", "dir"}
      [] OTHER -> {}

\* does the completion callback raise on this value?  watch.py:39-40 and
\* watch2ch.py:46-48 index the result with ['src'], a TypeError on a str
\* and on None; nfdump2parquet.py:459-461 only formats it
CompletedCallbackRaises(prog, value) ==
    prog \in WatchPrograms /\ value # "dict"

\* workers started without an initializer keep the default disposition
WorkerDispositionDefault(prog) == "SIG_DFL"

\* watch.py:227-229 and 314, watch2ch.py:222-224 and 413: init_worker sets
\* SIGINT and SIGTERM to SIG_IGN in every worker process before it takes a
\* task, and the decoder it spawns inherits ignored signals; the pool of
\* nfdump2parquet.py:533 has no initializer
WorkerDisposition(prog) ==
    IF prog \in WatchPrograms THEN "SIG_IGN" ELSE "SIG_DFL"

\* the finally block with the pool closed before the observer is stopped
WatchFinallyCloseFirst ==
    <<"pool.close", "observer.stop", "observer.join", "pool.join">>

\* watch.py:326-330, watch2ch.py:425-429: the finally block of main
WatchFinally ==
    <<"observer.stop", "observer.join", "pool.close", "pool.join">>

\* nfdump2parquet.py:548-553: what main does after the submit loop
BatchTail ==
    <<"pool.close", "pool.join", "queue.put", "logger_p.join">>

\* the statements main runs after its loop
MainBlock(prog) == IF prog \in WatchPrograms THEN WatchFinally ELSE BatchTail

\* main is about to run this statement ("loop" before, "exit" after)
Statement ==
    IF step = 0 THEN "loop"
    ELSE IF step > Len(MainBlock(program)) THEN "exit"
    ELSE MainBlock(program)[step]

\* the shutdown message of the logging queue (None)
Sentinel == [job |-> 0, by |-> "sentinel", seq |-> 0]

\* the records put on the queue so far
Enqueued(q, done) ==
    Len(done) + Cardinality({ i \in DOMAIN q : q[i] # Sentinel })

\* nfdump2parquet.py:516-517: the logger of the program has a QueueHandler
\* on the shared queue, in main and in the workers forked from it; each
\* record is put on the queue, numbered here in the order of the puts
QueuePut(q, done, j, who, n) ==
    q \o [i \in 1..n |-> [job |-> j, by |-> who, seq |-> Enqueued(q, done) + i]]

\* the records convert logs at the level INFO: 'converting ...' (line 367)
\* once the source file was found, and the error of lines 384 or 440
LogRecords(kind) ==
    CASE kind = "missing" -> 0
      [] kind \in {"nodecoder", "parseerr"} -> 2
      [] OTHER -> 1

\* a queue that hands out its newest message
QueueGetNewest(q) == [msg |-> q[Len(q)], rest |-> SubSeq(q, 1, Len(q) - 1)]

\* queue.get() (line 487): the oldest message of the queue
QueueGet(q) == [msg |-> Head(q), rest |-> Tail(q)]

NewJob == [st |-> "queued", res |-> "none", okcb |-> 0, errcb |-> 0,
           tmp |-> {}]

\* the pool and main as the programs build them, before any submission
PoolStart ==
    /\ program \in {"watch", "watch2ch", "batch"}
    /\ watches \in 1..MaxWorkers
    /\ step = 0
    /\ sig_received = FALSE
    /\ observer = IF program \in WatchPrograms THEN "running" ELSE "none"
    /\ loggerp = IF program = "batch" THEN "running" ELSE "none"
    /\ poolState = "RUN"
    /\ jobs = <<>>
    /\ inqueue = <<>>
    /\ worker = [w \in Workers |-> 0]
    /\ outqueue = <<>>
    /\ handler = "alive"
    /\ cache = {}
    /\ atClose = {}
    /\ evlog = <<>>
    /\ submitted = <<>>
    /\ signalled = {}
    /\ opts \in RunOptions(program)
    /\ written = {}
    /\ logq = <<>>
    /\ logged = <<>>

\* a run of a watch program that sees capture files appear, or a batch
\* conversion of a source directory
PoolInit ==
    /\ PoolStart
    /\ IF program \in WatchPrograms
       THEN /\ vocab \in CaptureEvents
            /\ filelist = <<>>
       ELSE /\ vocab = {}
            /\ filelist \in { BatchFileList(tree, recursive) :
                                 tree \in BatchTrees, recursive \in BOOLEAN }

\* a run of a watch program under every kind of event
WatchInit ==
    /\ PoolStart
    /\ program \in WatchPrograms
    /\ watches = 1
    /\ vocab = AllEvents
    /\ filelist = <<>>

PoolIdle ==
    /\ program = "none"
    /\ watches = 1
    /\ step = 0
    /\ sig_received = FALSE
    /\ observer = "none"
    /\ loggerp = "none"
    /\ poolState = "none"
    /\ jobs = <<>>
    /\ inqueue = <<>>
    /\ worker = <<>>
    /\ outqueue = <<>>
    /\ handler = "none"
    /\ cache = {}
    /\ atClose = {}
    /\ vocab = {}
    /\ evlog = <<>>
    /\ submitted = <<>>
    /\ filelist = <<>>
    /\ signalled = {}
    /\ opts = [f |-> "", nohives |-> FALSE]
    /\ written = {}
    /\ logq = <<>>
    /\ logged = <<>>

\* pool.apply_async(convert, args=(source_file, ...), callback,
\* error_callback): the job is queued and registered in the pool's cache
apply_async(source_file, ev) ==
    /\ poolState = "RUN"
    /\ Len(jobs) < MaxJobs
    /\ jobs' = Append(jobs, NewJob)
    /\ inqueue' = Append(inqueue, Len(jobs) + 1)
    /\ cache' = cache \cup {Len(jobs) + 1}
    /\ submitted' = Append(submitted, [src |-> source_file, ev |-> ev])

\* watch.py:49-79, watch2ch.py:53-83: the observer thread hands an event
\* to dispatch; on_created and on_moved submit one job, every other
\* outcome submits none.  The observer thread may still be inside a
\* dispatch between observer.stop and observer.join.
OnEvent ==
    /\ program \in WatchPrograms
    /\ observer \in {"running", "stopped"}
    /\ Len(evlog) < MaxEvents
    /\ \E e \in vocab :
         LET out == HandlerOutcome(e)
         IN /\ evlog' = Append(evlog, e)
            /\ IF out.act = "convert"
               THEN apply_async(out.path, Len(evlog) + 1)
               ELSE UNCHANGED <<jobs, inqueue, cache, submitted>>
            /\ observer' = ObserverAfter(out.act, observer)
    /\ UNCHANGED <<program, watches, step, sig_received, loggerp,
                   poolState, worker, outqueue, handler, atClose>>
    /\ UNCHANGED <<vocab, filelist, signalled, opts, written,
                   logq, logged>>
    /\ UNCHANGED <<coalVars, compVars, startVars>>

\* nfdump2parquet.py:537-546: the loop over filelist submits the next file
BatchSubmit ==
    /\ program = "batch"
    /\ Statement = "loop"
    /\ Len(jobs) < Len(filelist)
    /\ apply_async(filelist[Len(jobs) + 1], 0)
    /\ UNCHANGED <<program, watches, step, sig_received, observer, loggerp,
                   poolState, worker, outqueue, handler, atClose>>
    /\ UNCHANGED <<vocab, evlog, filelist, signalled, opts, written,
                   logq, logged>>
    /\ UNCHANGED <<coalVars, compVars, startVars>>

\* nfdump2parquet.py:547: filelist is exhausted
BatchLoopEnd ==
    /\ program = "batch"
    /\ Statement = "loop"
    /\ Len(jobs) = Len(filelist)
    /\ step' = 1
    /\ UNCHANGED <<program, watches, sig_received, observer, loggerp,
                   poolState, jobs, inqueue, worker, outqueue, handler,
                   cache, atClose>>
    /\ UNCHANGED <<vocab, evlog, submitted, filelist, signalled, opts, written,
                   logq, logged>>
    /\ UNCHANGED <<coalVars, compVars, startVars>>

\* watch.py:235-239: the signal handler of the main process sets the flag
SignalHandler ==
    /\ program \in WatchPrograms
    /\ Statement # "exit"
    /\ ~sig_received
    /\ sig_received' = TRUE
    /\ UNCHANGED <<program, watches, step, observer, loggerp, poolState,
                   jobs, inqueue, worker, outqueue, handler, cache, atClose>>
    /\ UNCHANGED <<vocab, evlog, submitted, filelist, signalled, opts, written,
                   logq, logged>>
    /\ UNCHANGED <<coalVars, compVars, startVars>>

\* watch.py:324-326: the wait loop sees the flag and the finally block starts
WatchLoopExit ==
    /\ program \in WatchPrograms
    /\ Statement = "loop"
    /\ sig_received
    /\ step' = 1
    /\ UNCHANGED <<program, watches, sig_received, observer, loggerp,
                   poolState, jobs, inqueue, worker, outqueue, handler,
                   cache, atClose>>
    /\ UNCHANGED <<vocab, evlog, submitted, filelist, signalled, opts, written,
                   logq, logged>>
    /\ UNCHANGED <<coalVars, compVars, startVars>>

\* observer.stop()
MainObserverStop ==
    /\ Statement = "observer.stop"
    /\ observer' = "stopped"
    /\ step' = step + 1
    /\ UNCHANGED <<program, watches, sig_received, loggerp, poolState, jobs,
                   inqueue, worker, outqueue, handler, cache, atClose>>
    /\ UNCHANGED <<vocab, evlog, submitted, filelist, signalled, opts, written,
                   logq, logged>>
    /\ UNCHANGED <<coalVars, compVars, startVars>>

\* observer.join(): the observer thread has ended
MainObserverJoin ==
    /\ Statement = "observer.join"
    /\ observer' = "joined"
    /\ step' = step + 1
    /\ UNCHANGED <<program, watches, sig_received, loggerp, poolState, jobs,
                   inqueue, worker, outqueue, handler, cache, atClose>>
    /\ UNCHANGED <<vocab, evlog, submitted, filelist, signalled, opts, written,
                   logq, logged>>
    /\ UNCHANGED <<coalVars, compVars, startVars>>

\* pool.close(): no more submissions; queued and running jobs stay
MainPoolClose ==
    /\ Statement = "pool.close"
    /\ poolState' = "CLOSE"
    /\ atClose' = { j \in DOMAIN jobs : jobs[j].st # "finished" }
    /\ step' = step + 1
    /\ UNCHANGED <<program, watches, sig_received, observer, loggerp, jobs,
                   inqueue, worker, outqueue, handler, cache>>
    /\ UNCHANGED <<vocab, evlog, submitted, filelist, signalled, opts, written,
                   logq, logged>>
    /\ UNCHANGED <<coalVars, compVars, startVars>>

\* pool.join() returns once the pool's cache of pending results is empty
MainPoolJoin ==
    /\ Statement = "pool.join"
    /\ poolState = "CLOSE"
    /\ cache = {}
    /\ step' = step + 1
    /\ UNCHANGED <<program, watches, sig_received, observer, loggerp,
                   poolState, jobs, inqueue, worker, outqueue, handler,
                   cache, atClose>>
    /\ UNCHANGED <<vocab, evlog, submitted, filelist, signalled, opts, written,
                   logq, logged>>
    /\ UNCHANGED <<coalVars, compVars, startVars>>

\* nfdump2parquet.py:552: queue.put(None), the logger's shutdown sentinel
MainQueuePut ==
    /\ Statement = "queue.put"
    /\ logq' = Append(logq, Sentinel)
    /\ step' = step + 1
    /\ UNCHANGED <<program, watches, sig_received, observer, loggerp, poolState,
                   jobs, inqueue, worker, outqueue, handler, cache, atClose>>
    /\ UNCHANGED <<vocab, evlog, submitted, filelist, signalled, opts, written,
                   logged>>
    /\ UNCHANGED <<coalVars, compVars, startVars>>

\* nfdump2parquet.py:553: logger_p.join() returns once the logger process
\* has ended
MainLoggerJoin ==
    /\ Statement = "logger_p.join"
    /\ loggerp = "exited"
    /\ step' = step + 1
    /\ UNCHANGED <<program, watches, sig_received, observer, loggerp, poolState,
                   jobs, inqueue, worker, outqueue, handler, cache, atClose>>
    /\ UNCHANGED <<vocab, evlog, submitted, filelist, signalled, opts, written,
                   logq, logged>>
    /\ UNCHANGED <<coalVars, compVars, startVars>>

\* nfdump2parquet.py:484-492: the logger process takes a message from the
\* queue; None ends its loop, any other message is handled
LoggerGet ==
    /\ loggerp = "running"
    /\ logq # <<>>
    /\ LET g == QueueGet(logq)
       IN /\ logq' = g.rest
          /\ IF g.msg = Sentinel
             THEN loggerp' = "exited" /\ logged' = logged
             ELSE loggerp' = loggerp /\ logged' = Append(logged, g.msg)
    /\ UNCHANGED <<program, watches, step, sig_received, observer, poolState,
                   jobs, inqueue, worker, outqueue, handler, cache, atClose>>
    /\ UNCHANGED <<vocab, evlog, submitted, filelist, signalled, opts, written>>
    /\ UNCHANGED <<coalVars, compVars, startVars>>

\* an idle worker process takes the next task of the queue
WorkerTake(w) ==
    /\ worker[w] = 0
    /\ inqueue # <<>>
    /\ worker' = [worker EXCEPT ![w] = Head(inqueue)]
    /\ inqueue' = Tail(inqueue)
    /\ jobs' = [jobs EXCEPT ![Head(inqueue)].st = "running"]
    /\ UNCHANGED <<program, watches, step, sig_received, observer, loggerp,
                   poolState, outqueue, handler, cache, atClose>>
    /\ UNCHANGED <<vocab, evlog, submitted, filelist, signalled, opts, written,
                   logq, logged>>
    /\ UNCHANGED <<coalVars, compVars, startVars>>

\* SIGINT or SIGTERM reaches a worker process of a watch program while it
\* runs a job (a signal sent to the process group).  An ignored signal
\* changes nothing; otherwise the job is cut short, the pool replaces the
\* worker and the job's outcome never arrives.
WorkerSignal(w) ==
    /\ program \in WatchPrograms
    /\ worker[w] # 0
    /\ worker[w] \notin signalled
    /\ Cardinality(signalled) < MaxSignals
    /\ signalled' = signalled \cup {worker[w]}
    /\ IF WorkerDisposition(program) = "SIG_IGN"
       THEN UNCHANGED <<jobs, worker>>
       ELSE /\ jobs' = [jobs EXCEPT ![worker[w]].st = "aborted"]
            /\ worker' = [worker EXCEPT ![w] = 0]
    /\ UNCHANGED <<program, watches, step, sig_received, observer, loggerp,
                   poolState, inqueue, outqueue, handler, cache, atClose>>
    /\ UNCHANGED <<vocab, evlog, submitted, filelist, opts, written,
                   logq, logged>>
    /\ UNCHANGED <<coalVars, compVars, startVars>>

\* convert returns or raises in the worker; the outcome is queued for the
\* result handler and the worker is free again
WorkerFinish(w) ==
    /\ worker[w] # 0
    /\ \E kind \in FileKinds :
         LET r == ConvertOutcome(program, kind)
         IN /\ outqueue' = Append(outqueue, [job |-> worker[w],
                                             kind |-> kind,
                                             success |-> r.success,
                                             value |-> r.value])
            /\ jobs' = [jobs EXCEPT ![worker[w]].st = "finished",
                                    ![worker[w]].res =
                                        IF r.success THEN "ok" ELSE "fail",
                                    ![worker[w]].tmp = TempLeft(program, kind)]
            /\ IF kind = "ok" /\ program # "watch2ch"
               THEN \E hs \in FlowContents(submitted[worker[w]].src) :
                      written' = written \cup
                        { [job |-> worker[w], te |-> h,
                           path |-> DestPath(submitted[worker[w]].src, h,
                                             ConvertArgs(program, opts).hives)] :
                            h \in hs }
               ELSE written' = written
            /\ logq' = IF program = "batch"
                       THEN QueuePut(logq, logged, worker[w], "worker",
                                     LogRecords(kind))
                       ELSE logq
    /\ worker' = [worker EXCEPT ![w] = 0]
    /\ UNCHANGED <<program, watches, step, sig_received, observer, loggerp,
                   poolState, inqueue, handler, cache, atClose>>
    /\ UNCHANGED <<vocab, evlog, submitted, filelist, signalled, opts, logged>>
    /\ UNCHANGED <<coalVars, compVars, startVars>>

\* the result handler thread takes an outcome and runs the job's callback
\* (ApplyResult._set): the completion callback on success, the error
\* callback otherwise, then drops the job from the cache.  An exception
\* raised by the callback ends the thread before the job is dropped.
HandleResult ==
    /\ handler = "alive"
    /\ outqueue # <<>>
    /\ LET r == Head(outqueue)
       IN IF r.success
          THEN /\ jobs' = [jobs EXCEPT ![r.job].okcb = @ + 1]
               /\ IF CompletedCallbackRaises(program, r.value)
                  THEN handler' = "dead" /\ cache' = cache
                  ELSE handler' = handler /\ cache' = cache \ {r.job}
          ELSE /\ jobs' = [jobs EXCEPT ![r.job].errcb = @ + 1]
               /\ handler' = handler
               /\ cache' = cache \ {r.job}
    /\ outqueue' = Tail(outqueue)
    /\ logq' = IF program = "batch"
               THEN QueuePut(logq, logged, Head(outqueue).job, "callback", 1)
               ELSE logq
    /\ UNCHANGED <<program, watches, step, sig_received, observer, loggerp,
                   poolState, inqueue, worker, atClose>>
    /\ UNCHANGED <<vocab, evlog, submitted, filelist, signalled, opts, written,
                   logged>>
    /\ UNCHANGED <<coalVars, compVars, startVars>>

(***************************************************************************)
(* The start of the entry points: main of watch.py (lines 233-330), of     *)
(* watch2ch.py (lines 342-429) and of coalesce.py (lines 245-283), from    *)
(* the command line to the exit status.  The watchers are followed up to   *)
(* a shutdown with no conversion in flight.                                *)
(***************************************************************************)
\* a directory option: not given, an existing directory, or a path that is
\* no directory
DirArgs == {"absent", "dir", "missing"}

\* -c: not given, an existing file, or a path that is no file
ConfigArgs == {"absent", "file", "nofile"}

\* a section of the config file: its keys are present and its directories
\* exist; a directory is missing; a key is missing
SectionKinds == {"valid", "nodir", "nokey"}

ConfigFiles == UNION { [1..n -> SectionKinds] : n \in 0..MaxSections }

\* the command lines and environments an entry point is started with
CommandLines ==
    { [prog |-> "watch", b |-> b, p |-> p, f |-> f, c |-> c, sections |-> s] :
        b \in DirArgs, p \in DirArgs, f \in FlowSrcs, c \in ConfigArgs,
        s \in ConfigFiles }
    \cup
    { [prog |-> "watch2ch", b |-> b, p |-> "absent", f |-> f, c |-> c,
       sections |-> s] :
        b \in DirArgs, f \in FlowSrcs, c \in ConfigArgs, s \in ConfigFiles }
    \cup
    { [prog |-> "coalesce", b |-> b, p |-> "absent", f |-> "", c |-> "absent",
       sections |-> <<>>] : b \in {"dir", "missing"} }

\* a config file that does not exist has no sections
WellFormed(c) == c.c # "file" => c.sections = <<>>

\* the exit status of parser.error (argparse exits with status 2)
ParserError == {2}

\* the exit status of an uncaught exception
Traceback == {1}

Exit(n) ==
    /\ spc' = "exited"
    /\ exit_status' = n

\* watch.py:252-258, watch2ch.py:361-364: without -c, -b (and -p of
\* watch.py) must be given
StartParse ==
    /\ spc = "parse"
    /\ cmd.prog \in WatchPrograms
    /\ IF cmd.c = "absent" /\ cmd.b = "absent"
       THEN Exit(ParserError)
       ELSE IF cmd.prog = "watch" /\ cmd.c = "absent" /\ cmd.p = "absent"
       THEN Exit(ParserError)
       ELSE spc' = "checkdirs" /\ exit_status' = exit_status
    /\ UNCHANGED <<cmd, targets>>
    /\ UNCHANGED <<coalVars, compVars, poolVars>>

\* watch.py:270-276, watch2ch.py:375-377: a directory given on the
\* command line must exist
StartCheckDirs ==
    /\ spc = "checkdirs"
    /\ IF cmd.b = "missing"
       THEN Exit({2})
       ELSE IF cmd.prog = "watch" /\ cmd.p = "missing"
       THEN Exit({2})
       ELSE spc' = "direct" /\ exit_status' = exit_status
    /\ UNCHANGED <<cmd, targets>>
    /\ UNCHANGED <<coalVars, compVars, poolVars>>

\* watch.py:278-281: the target of -b and -p; watch2ch.py:379-381: the
\* target of -b, a dict with the keys 'watchdir' and 'flowsrc' only
StartDirect ==
    /\ spc = "direct"
    /\ IF cmd.prog = "watch"
       THEN IF cmd.b # "absent" /\ cmd.p # "absent"
            THEN targets' = Append(targets, [origin |-> 0, flowsrc |-> cmd.f,
                                             ch_table |-> FALSE])
            ELSE targets' = targets
       ELSE IF cmd.b # "absent"
            THEN targets' = Append(targets, [origin |-> 0, flowsrc |-> cmd.f,
                                             ch_table |-> FALSE])
            ELSE targets' = targets
    /\ spc' = "config"
    /\ UNCHANGED <<cmd, exit_status>>
    /\ UNCHANGED <<coalVars, compVars, poolVars>>

\* the targets of the sections from the i-th on: a section with its keys and
\* existing directories gives a target named after it, any other section
\* an error message
RECURSIVE SectionTargets(_, _)
SectionTargets(sections, i) ==
    IF i > Len(sections) THEN <<>>
    ELSE (IF sections[i] = "valid"
          THEN << [origin |-> i, flowsrc |-> "section", ch_table |-> TRUE] >>
          ELSE <<>>) \o SectionTargets(sections, i + 1)

\* watch.py:284-305, watch2ch.py:384-404: the sections of the config file,
\* when -c names a file
StartConfig ==
    /\ spc = "config"
    /\ IF cmd.c = "file"
       THEN targets' = targets \o SectionTargets(cmd.sections, 1)
       ELSE targets' = targets
    /\ spc' = "count"
    /\ UNCHANGED <<cmd, exit_status>>
    /\ UNCHANGED <<coalVars, compVars, poolVars>>

\* watch.py:310-312, watch2ch.py:408-410
StartCount ==
    /\ spc = "count"
    /\ IF Len(targets) = 0
       THEN Exit({1})
       ELSE spc' = "schedule" /\ exit_status' = exit_status
    /\ UNCHANGED <<cmd, targets>>
    /\ UNCHANGED <<coalVars, compVars, poolVars>>

\* watch.py:314-322, watch2ch.py:412-420: the pool, one handler per target
\* and the observer.  watch2ch.py:416 reads watch['ch_table'] of every
\* target: a KeyError for a target that has no such key, which nothing
\* catches.
StartSchedule ==
    /\ spc = "schedule"
    /\ IF cmd.prog = "watch2ch" /\ \E i \in DOMAIN targets : ~targets[i].ch_table
       THEN Exit(Traceback)
       ELSE spc' = "watching" /\ exit_status' = exit_status
    /\ UNCHANGED <<cmd, targets>>
    /\ UNCHANGED <<coalVars, compVars, poolVars>>

\* watch.py:235-242, 323-325: a termination signal sets the flag and the
\* loop of main ends
StartSignal ==
    /\ spc = "watching"
    /\ spc' = "finally"
    /\ UNCHANGED <<cmd, targets, exit_status>>
    /\ UNCHANGED <<coalVars, compVars, poolVars>>

\* watch.py:326-330: the observer is stopped and joined, the idle pool is
\* closed and joined, main returns
StartShutdown ==
    /\ spc = "finally"
    /\ Exit({0})
    /\ UNCHANGED <<cmd, targets>>
    /\ UNCHANGED <<coalVars, compVars, poolVars>>

\* coalesce.py:245-283: main has no exit statement.  list_dirs returns []
\* for a base directory that does not exist (lines 211-212), both loops are
\* empty and main returns; otherwise main returns after the last
\* partition, or an exception of the sink ends it.
StartCoalesce ==
    /\ spc = "parse"
    /\ cmd.prog = "coalesce"
    /\ IF cmd.b = "missing"
       THEN Exit({0})
       ELSE \E n \in {{0}, Traceback} : Exit(n)
    /\ UNCHANGED <<cmd, targets>>
    /\ UNCHANGED <<coalVars, compVars, poolVars>>

StartInit ==
    /\ cmd \in { c \in CommandLines : WellFormed(c) }
    /\ spc = "parse"
    /\ targets = <<>>
    /\ exit_status = {}

StartIdle ==
    /\ cmd = [prog |-> "none"]
    /\ spc = "none"
    /\ targets = <<>>
    /\ exit_status = {}

(***************************************************************************)
(* The specifications.                                                     *)
(***************************************************************************)
NextCompact ==
    \/ MainListDirs
    \/ MainListFiles
    \/ StreamRead
    \/ StreamEnd
    \/ StreamWrite
    \/ StreamClose
    \/ RemoveFile

InitCompact == CompactInit /\ CoalesceIdle /\ PoolIdle /\ StartIdle

SpecCompact == InitCompact /\ [][NextCompact]_vars

\* a run of the compaction that takes every step it can take
SpecCompactFair == InitCompact /\ [][NextCompact]_vars /\ WF_vars(NextCompact)

NextCoalesce ==
    \/ CoalesceNextItem
    \/ CoalesceExhausted

InitCoalesce == CoalesceInit /\ CompactIdle /\ PoolIdle /\ StartIdle

SpecCoalesce == InitCoalesce /\ [][NextCoalesce]_vars

NextPool ==
    \/ OnEvent
    \/ BatchSubmit
    \/ BatchLoopEnd
    \/ SignalHandler
    \/ WatchLoopExit
    \/ MainObserverStop
    \/ MainObserverJoin
    \/ MainPoolClose
    \/ MainPoolJoin
    \/ MainQueuePut
    \/ MainLoggerJoin
    \/ LoggerGet
    \/ \E w \in Workers : WorkerTake(w)
    \/ \E w \in Workers : WorkerSignal(w)
    \/ \E w \in Workers : WorkerFinish(w)
    \/ HandleResult

InitPool == PoolInit /\ CoalesceIdle /\ CompactIdle /\ StartIdle

SpecPool == InitPool /\ [][NextPool]_vars

\* the same runs under fair scheduling: main, the worker processes, the
\* result handler thread and the logger process each take the step they
\* can take; a running conversion ends; events and signals may or may not
\* come
PoolFairness ==
    /\ WF_vars(BatchSubmit \/ BatchLoopEnd)
    /\ WF_vars(WatchLoopExit)
    /\ WF_vars(MainObserverStop \/ MainObserverJoin)
    /\ WF_vars(MainPoolClose \/ MainPoolJoin)
    /\ WF_vars(MainQueuePut \/ MainLoggerJoin)
    /\ WF_vars(\E w \in Workers : WorkerTake(w))
    /\ WF_vars(\E w \in Workers : WorkerFinish(w))
    /\ WF_vars(HandleResult)
    /\ WF_vars(LoggerGet)

SpecPoolFair == InitPool /\ [][NextPool]_vars /\ PoolFairness

\* the observer thread and main of a watch program, up to the moment the
\* observer thread has ended
NextWatch ==
    \/ OnEvent
    \/ SignalHandler
    \/ WatchLoopExit
    \/ MainObserverStop
    \/ MainObserverJoin

InitWatch == WatchInit /\ CoalesceIdle /\ CompactIdle /\ StartIdle

SpecWatch == InitWatch /\ [][NextWatch]_vars


\* the start of an entry point
NextStart ==
    \/ StartParse
    \/ StartCheckDirs
    \/ StartDirect
    \/ StartConfig
    \/ StartCount
    \/ StartSchedule
    \/ StartSignal
    \/ StartShutdown
    \/ StartCoalesce

InitStart == StartInit /\ CoalesceIdle /\ CompactIdle /\ PoolIdle

SpecStart == InitStart /\ [][NextStart]_vars

(***************************************************************************)
(* C1: every group emitted by coalesce has a total size <= max_size,       *)
(* except a group of exactly one item whose own size exceeds max_size.     *)
(***************************************************************************)
C1_GroupWithinCeiling ==
    \A k \in DOMAIN groups :
        \/ SumSizes([i \in DOMAIN groups[k] |-> ItemSize(groups[k][i])]) <= max_size
        \/ Len(groups[k]) = 1 /\ ItemSize(groups[k][1]) > max_size

\* a finished run that emitted an oversize singleton and a packed group
C1_Witness ==
    /\ cpc = "done"
    /\ \E k \in DOMAIN groups :
          Len(groups[k]) = 1 /\ ItemSize(groups[k][1]) > max_size
    /\ \E k \in DOMAIN groups :
          Len(groups[k]) >= 2 /\ SumSizes([i \in DOMAIN groups[k] |-> ItemSize(groups[k][i])]) = max_size

(***************************************************************************)
(* C2: concatenating the emitted groups, in emission order, reproduces     *)
(* the input sequence: nothing dropped, duplicated or reordered.  While    *)
(* the generator runs, the groups and the open batch are the prefix read.  *)
(***************************************************************************)
C2_ConcatReproducesInput ==
    /\ cpc = "loop" => Flatten(groups) \o batch = SubSeq(items, 1, pos - 1)
    /\ cpc = "done" => Flatten(groups) = items

\* a finished run over the longest input that closed a group mid-way and
\* emitted the trailing group at the end of the input
C2_Witness ==
    /\ cpc = "done"
    /\ Len(items) >= 3
    /\ Len(groups) >= 2
    /\ batch # <<>>

(***************************************************************************)
(* C3: in batch compaction a source file of a partition is deleted only    *)
(* after the coalesced output write for that partition has completed       *)
(* successfully, and when the write fails every original source file of    *)
(* the partition still exists.                                             *)
(***************************************************************************)
C3_DeleteOnlyAfterWrite ==
    /\ \A t \in touched : t.op = "delete" => t.dir \in wrote
    /\ rpc = "crashed" => \A i \in DOMAIN files : Exists(plan[cur], files[i])

(***************************************************************************)
(* C9: batch compaction never reads, writes or deletes a file in a         *)
(* partition whose date label is the date taken at invocation, whatever    *)
(* the hour bucket.                                                        *)
(***************************************************************************)
C9_TodayUntouched ==
    \A t \in touched : DayOf(t.dir.datedir) # datenow

\* a finished run that deleted source files elsewhere while a matching
\* source file lies in a partition dated today
C9_Witness ==
    /\ rpc = "done"
    /\ \E f \in fs : DayOf(f.dir.datedir) = datenow /\ RegexMatch(f.name)
    /\ \E t \in touched : t.op = "delete"

(***************************************************************************)
(* C10: when the output of a partition has been written, its rows are the  *)
(* rows of the partition's source files in sorted file order and, within   *)
(* a file, in batch order; only the grouping into batches differs.         *)
(***************************************************************************)
C10_OutputIsConcatenation ==
    (rpc = "remove" /\ ridx = 1 /\ plan[cur] \in wrote) =>
        LET names == list_files(plan[cur])
        IN \E order \in [1..Cardinality(names) -> names] :
              /\ \A i, j \in DOMAIN order :
                    i < j => TsOf(order[i]) < TsOf(order[j])
              /\ Flatten(DataOf(plan[cur], OutNameOf(plan[cur])).batches)
                    = RowsOfTables(stream_from_files(plan[cur], order))

\* an output written from two source files whose batches were regrouped
C10_Witness ==
    /\ rpc = "remove" /\ ridx = 1 /\ plan[cur] \in wrote
    /\ Len(files) >= 2
    /\ Len(DataOf(plan[cur], OutNameOf(plan[cur])).batches) >= 2
    /\ Len(DataOf(plan[cur], OutNameOf(plan[cur])).batches)
         < Len(stream_from_files(plan[cur], files))

(***************************************************************************)
(* The pool has come to rest: no task is queued or running, and no outcome *)
(* waits for a result handler that is still alive.                         *)
(***************************************************************************)
PoolAtRest ==
    /\ inqueue = <<>>
    /\ \A w \in Workers : worker[w] = 0
    /\ outqueue = <<>> \/ handler = "dead"

Callbacks(j) == jobs[j].okcb + jobs[j].errcb

(***************************************************************************)
(* C4: for every job submitted to the pool, once the job has finished,     *)
(* exactly one of its two callbacks has been invoked for it, exactly once: *)
(* never both, never twice, and never neither once the pool is at rest.    *)
(***************************************************************************)
C4_ExactlyOneCallback ==
    \A j \in DOMAIN jobs :
        /\ Callbacks(j) <= 1
        /\ (PoolAtRest /\ jobs[j].st = "finished") => Callbacks(j) = 1

(***************************************************************************)
(* C5: the number of conversion jobs executing at the same time is at most *)
(* the pool capacity: the number of watch targets, or the -p value.        *)
(***************************************************************************)
C5_RunningWithinCapacity ==
    /\ Cardinality({ w \in DOMAIN worker : worker[w] # 0 }) <= watches
    /\ Cardinality({ j \in DOMAIN jobs : jobs[j].st = "running" }) <= watches

\* every worker is busy while more submitted jobs wait in the queue
C5_Witness ==
    /\ Cardinality({ j \in DOMAIN jobs : jobs[j].st = "running" }) = watches
    /\ Len(inqueue) >= 1
    /\ Len(jobs) > watches

(***************************************************************************)
(* C6: when one of the jobs dispatched fails, each other job still runs to *)
(* completion and has its own result reported through its own callback,    *)
(* and the pool keeps running the jobs submitted later.                    *)
(***************************************************************************)
C6_FailureIsolated ==
    (PoolAtRest /\ \E f \in DOMAIN jobs : jobs[f].res = "fail") =>
        \A j \in DOMAIN jobs :
            /\ jobs[j].st = "finished"
            /\ jobs[j].res = "ok" => jobs[j].okcb = 1 /\ jobs[j].errcb = 0
            /\ jobs[j].res = "fail" => jobs[j].errcb = 1 /\ jobs[j].okcb = 0

(***************************************************************************)
(* C7: on shutdown in watch mode the event source is stopped and joined    *)
(* first, then the pool is closed to new submissions, then the process     *)
(* blocks until the pool's jobs have finished; no step starts before the   *)
(* previous one completed.                                                 *)
(***************************************************************************)
C7_ShutdownOrder ==
    program \in WatchPrograms =>
        /\ observer \in {"stopped", "joined"} => sig_received
        /\ poolState = "CLOSE" => observer = "joined"
        /\ Statement = "pool.join" => poolState = "CLOSE"
        /\ Statement = "exit" =>
              /\ poolState = "CLOSE"
              /\ \A j \in DOMAIN jobs : jobs[j].st = "finished"

\* a watch process that exited after draining a job that was still
\* unfinished when the pool was closed
C7_Witness ==
    /\ program \in WatchPrograms
    /\ Statement = "exit"
    /\ observer = "joined"
    /\ atClose # {}

(***************************************************************************)
(* C8: every job submitted before the pool was closed, executing or still  *)
(* queued, runs to completion and has its callback fired before the watch  *)
(* process exits; shutdown never cancels or drops a submitted job.         *)
(***************************************************************************)
C8_DrainOnShutdown ==
    program \in WatchPrograms =>
        /\ \A j \in DOMAIN jobs :
              \/ jobs[j].st = "queued" /\ \E i \in DOMAIN inqueue : inqueue[i] = j
              \/ jobs[j].st = "running" /\ \E w \in Workers : worker[w] = j
              \/ jobs[j].st = "finished"
        /\ Statement = "exit" =>
              \A j \in DOMAIN jobs : jobs[j].st = "finished" /\ Callbacks(j) = 1
        /\ (poolState = "CLOSE" /\ PoolAtRest) =>
              \A j \in DOMAIN jobs : jobs[j].st = "finished" /\ Callbacks(j) = 1

(***************************************************************************)
(* C11: compaction of a partition that holds only the output artifact of   *)
(* an earlier compaction is a no-op: the artifact is not matched as a      *)
(* source file, no step reads, writes or deletes anything in the           *)
(* partition, and no step raises while main is at that partition.          *)
(***************************************************************************)
OnlyArtifact(d) ==
    { f.name : f \in { g \in fs : g.dir = d } } = {OutNameOf(d)}

TouchedIn(d) == { t \in touched : t.dir = d }

C11_CompactedIsNoOp ==
    [][\A d \in Dirs :
         (OnlyArtifact(d) /\ TouchedIn(d) = {}) =>
            /\ list_files(d) = {}
            /\ { f \in fs' : f.dir = d } = { f \in fs : f.dir = d }
            /\ { t \in touched' : t.dir = d } = {}
            /\ (cur \in DOMAIN plan /\ plan[cur] = d) => rpc' # "crashed"]_vars

\* a finished run that walked past a partition holding only the artifact
\* while it compacted another partition
C11_Witness ==
    /\ rpc = "done"
    /\ \E i \in DOMAIN plan : OnlyArtifact(plan[i]) /\ TouchedIn(plan[i]) = {}
    /\ \E t \in touched : t.op = "delete"

(***************************************************************************)
(* C12: every create event and every move event of a file that passes the  *)
(* filename filter has caused exactly one job submission, for a move with  *)
(* the destination path as the job's source file; a modify or delete       *)
(* event has caused none.                                                  *)
(***************************************************************************)
SubmissionsOf(i) == { j \in DOMAIN submitted : submitted[j].ev = i }

Qualifies(e) ==
    /\ ~e.is_directory
    /\ ~FsdecodeRaises(e.dest_path)
    /\ PassesFilter(e)

C12_OneSubmissionPerEvent ==
    \A i \in DOMAIN evlog :
        LET e == evlog[i]
        IN /\ (e.event_type = "created" /\ Qualifies(e)) =>
                 /\ Cardinality(SubmissionsOf(i)) = 1
                 /\ \A j \in SubmissionsOf(i) : submitted[j].src = e.src_path
           /\ (e.event_type = "moved" /\ Qualifies(e)) =>
                 /\ Cardinality(SubmissionsOf(i)) = 1
                 /\ \A j \in SubmissionsOf(i) : submitted[j].src = e.dest_path
           /\ e.event_type \in {"modified", "deleted"} =>
                 SubmissionsOf(i) = {}

\* a rename to a capture name and a modify event were dispatched, and the
\* rename's job has the new name as its source file
C12_Witness ==
    /\ \E i \in DOMAIN evlog :
          /\ evlog[i] = Moved(PathOf(TopDir, CurrentName), CapturePath(1))
          /\ \E j \in SubmissionsOf(i) : submitted[j].src = CapturePath(1)
    /\ \E i \in DOMAIN evlog :
          evlog[i].event_type = "modified" /\ Qualifies(evlog[i])

(***************************************************************************)
(* C13: a job is submitted by the watch handler, and a directory entry is  *)
(* put on the batch conversion's file list, only for a file whose          *)
(* basename is 'nfcapd.' followed by exactly twelve digits and nothing     *)
(* else.                                                                   *)
(***************************************************************************)
C13_OnlyCaptureNames ==
    /\ \A j \in DOMAIN submitted : IsCaptureName(Basename(submitted[j].src))
    /\ \A k \in DOMAIN filelist : IsCaptureName(Basename(filelist[k]))

(***************************************************************************)
(* C14: a termination signal delivered to a pool worker of a watch program *)
(* while it executes a job leaves the job and the worker as they are, and  *)
(* leaves the shutdown flag to the main process: the step changes neither  *)
(* the job's state, nor the worker's task, nor sig_received, and the job   *)
(* is never aborted.                                                       *)
(***************************************************************************)
C14_WorkerIgnoresSignal ==
    [][signalled' # signalled =>
         /\ jobs' = jobs
         /\ worker' = worker
         /\ sig_received' = sig_received
         /\ \A j \in signalled' \ signalled : jobs'[j].st = "running"]_vars

\* a job whose worker was signalled mid-job has run to completion and its
\* outcome was handed to a callback
C14_Witness ==
    \E j \in signalled :
        jobs[j].st = "finished" /\ jobs[j].okcb + jobs[j].errcb = 1

(***************************************************************************)
(* C15: two jobs that run at the same time for two distinct source files   *)
(* and write under the same destination root write disjoint sets of        *)
(* destination paths.                                                      *)
(***************************************************************************)
C15_DisjointDestinations ==
    program \in {"watch", "batch"} =>
        \A j, k \in DOMAIN jobs :
            (/\ j # k
             /\ jobs[j].st = "running" /\ jobs[k].st = "running"
             /\ submitted[j].src # submitted[k].src) =>
                \A hj \in FlowContents(submitted[j].src),
                   hk \in FlowContents(submitted[k].src) :
                    DestPaths(submitted[j].src, hj, ConvertArgs(program, opts).hives)
                      \cap DestPaths(submitted[k].src, hk, ConvertArgs(program, opts).hives) = {}

(***************************************************************************)
(* C16: in the watch programs every value queued for the completion        *)
(* callback is the record of the job's source file and timings (a dict     *)
(* with 'src', 'toCSV' and 'toParquet'), and the callback never fails on   *)
(* it: the result handler thread stays alive.                              *)
(***************************************************************************)
C16_CompletionValue ==
    program \in WatchPrograms =>
        /\ \A i \in DOMAIN outqueue :
              outqueue[i].success => outqueue[i].value = "dict"
        /\ handler # "dead"

(***************************************************************************)
(* C17: the outcome of a job that hit a job-level error (missing source    *)
(* file, decoder invocation failure, parse or write failure) is handed to  *)
(* the result handler as a failure, which it reports through the error     *)
(* callback and not the completion callback.                               *)
(***************************************************************************)
C17_ErrorsToErrorCallback ==
    \A i \in DOMAIN outqueue :
        outqueue[i].kind \in ErrorKinds => ~outqueue[i].success

(***************************************************************************)
(* C18: coalesce of the items [1, 2, 11, 4, 4, 1, 2], each of a size equal  *)
(* to its value, with max_size 10 yields exactly the groups [1, 2], [11],  *)
(* [4, 4, 1], [2], in that order.                                          *)
(***************************************************************************)
GroupSizes == [k \in DOMAIN groups |->
                 [i \in DOMAIN groups[k] |-> ItemSize(groups[k][i])]]

C18_DoctestExample ==
    (cpc = "done" /\ items = ItemsOf(ExampleSizes) /\ max_size = ExampleCeiling)
        => GroupSizes = << <<1, 2>>, <<11>>, <<4, 4, 1>>, <<2>> >>

\* the run on the doctest's input has ended with four groups
C18_Witness ==
    /\ cpc = "done"
    /\ items = ItemsOf(ExampleSizes)
    /\ max_size = ExampleCeiling
    /\ Len(groups) = 4

(***************************************************************************)
(* C19: coalesce is greedy.  An item joins the open group exactly when the *)
(* group's size with it stays within max_size; otherwise the group is      *)
(* closed and the item starts the next one.  Hence for any two consecutive *)
(* emitted groups the size of the earlier plus the size of the first item  *)
(* of the later exceeds max_size, and inside a group every item after the  *)
(* first fitted when it was added.                                         *)
(***************************************************************************)
SizeOfGroup(g) == SumSizes([i \in DOMAIN g |-> ItemSize(g[i])])

FilledGreedily(g) ==
    \A i \in 2..Len(g) : SizeOfGroup(SubSeq(g, 1, i)) <= max_size

C19_Greedy ==
    LET all == IF cpc = "loop" /\ batch # <<>> THEN Append(groups, batch)
               ELSE groups
    IN /\ \A k \in 1..(Len(all) - 1) :
             /\ all[k + 1] # <<>>
             /\ SizeOfGroup(all[k]) + ItemSize(all[k + 1][1]) > max_size
       /\ \A k \in DOMAIN all : FilledGreedily(all[k])

\* a finished run with three groups, one of which holds several items
C19_Witness ==
    /\ cpc = "done"
    /\ Len(groups) >= 3
    /\ \E k \in DOMAIN groups : Len(groups[k]) >= 2
    /\ \E k \in DOMAIN groups : SizeOfGroup(groups[k]) < max_size

(***************************************************************************)
(* C20: batch compaction works only in partitions whose date is strictly   *)
(* earlier than the date taken at invocation: no file is read, written or  *)
(* deleted in a partition dated today or later.                            *)
(***************************************************************************)
C20_OnlyPastDates ==
    \A t \in touched : DayOf(t.dir.datedir) < datenow

(***************************************************************************)
(* C21: once main has finished with a partition that had at least one      *)
(* matched source file (it went through the removal loop), the partition   *)
(* directory holds the output artifact named '<date>-<hour>:00.parquet'    *)
(* and no file that matches the source pattern.                            *)
(***************************************************************************)
Compacted ==
    { plan[i] : i \in { k \in DOMAIN plan :
                          /\ k < cur
                          /\ [op |-> "delete", dir |-> plan[k]] \in touched } }

C21_ArtifactReplacesSources ==
    \A d \in Compacted :
        /\ Exists(d, OutNameOf(d))
        /\ list_files(d) = {}
        /\ { f.name : f \in { g \in fs : g.dir = d } } = {OutNameOf(d)}

(***************************************************************************)
(* C22: in watch.py a create event for a capture file named                *)
(* nfcapd.YYYYMMDDHHMM under a watched root produces exactly one job, and  *)
(* every file that job writes lies under the date=/hour= partition of the  *)
(* destination root that the file name encodes.                            *)
(***************************************************************************)
IsCanonical(src_file) == \E t \in Stamps : Basename(src_file) = CanonName(t)

C22_UnderNamePartition ==
    program = "watch" =>
        \A i \in DOMAIN evlog :
            (evlog[i].event_type = "created" /\ ~evlog[i].is_directory
               /\ IsCanonical(evlog[i].src_path)) =>
                /\ Cardinality(SubmissionsOf(i)) = 1
                /\ \A j \in SubmissionsOf(i) : \A w \in written :
                      w.job = j =>
                        \E h \in NameHours(submitted[j].src) :
                            w.path.partition = <<h>>

(***************************************************************************)
(* C23: an entry point (coalesce.py, watch.py, watch2ch.py) exits with a   *)
(* non-zero status when a directory it was told to use does not exist or   *)
(* when no watch target is configured, and with status 0 after a normal    *)
(* completion or a clean shutdown on a signal.                             *)
(***************************************************************************)
RequiredDirMissing == cmd.b = "missing" \/ cmd.p = "missing"

NoWatchTarget == cmd.prog \in WatchPrograms /\ targets = <<>>

C23_ExitStatus ==
    [][(spc # "exited" /\ spc' = "exited") =>
          /\ (RequiredDirMissing \/ NoWatchTarget) => 0 \notin exit_status'
          /\ spc = "finally" => exit_status' = {0}]_vars

(***************************************************************************)
(* C24: started with only the direct flags naming existing directories     *)
(* (watch.py -b and -p, watch2ch.py -b), a watch program reaches the       *)
(* watching state with exactly one watch target and raises no error: it    *)
(* exits only through its shutdown, with status 0.                         *)
(***************************************************************************)
DirectFlagsOnly ==
    /\ cmd.prog \in WatchPrograms
    /\ cmd.c = "absent"
    /\ cmd.b = "dir"
    /\ cmd.prog = "watch" => cmd.p = "dir"

C24_DirectFlagsWatch ==
    DirectFlagsOnly =>
        /\ spc \in {"watching", "finally"} => Len(targets) = 1
        /\ spc = "exited" => exit_status = {0}

(***************************************************************************)
(* C25: when watch.py is started with a config file (-c), the other        *)
(* options are ignored: the watch targets are exactly the valid sections   *)
(* of the file, and -b, -p and -f neither add a target nor make the        *)
(* process exit.                                                           *)
(***************************************************************************)
ValidSections(c) ==
    IF c.c = "file"
    THEN { i \in DOMAIN c.sections : c.sections[i] = "valid" }
    ELSE {}

C25_ConfigOverridesFlags ==
    (cmd.prog = "watch" /\ cmd.c # "absent") =>
        /\ spc \in {"count", "schedule", "watching", "finally"} =>
              /\ { targets[i].origin : i \in DOMAIN targets } = ValidSections(cmd)
              /\ Len(targets) = Cardinality(ValidSections(cmd))
        /\ spc = "exited" =>
              (exit_status = {0} \/ ValidSections(cmd) = {})

(***************************************************************************)
(* C26: every group emitted by coalesce holds at least one item, and when  *)
(* the first item alone exceeds max_size the first group emitted is that   *)
(* item alone.                                                             *)
(***************************************************************************)
C26_NoEmptyGroup ==
    /\ \A k \in DOMAIN groups : groups[k] # <<>>
    /\ (groups # <<>> /\ ItemSize(items[1]) > max_size) =>
          groups[1] = <<items[1]>>

(***************************************************************************)
(* C27: batch compaction never loses rows: every row stored in some file   *)
(* of a partition is still stored in some file of that partition after     *)
(* each step of a run, also in a partition that holds the output of an     *)
(* earlier compaction next to source files that arrived since.             *)
(***************************************************************************)
RowsIn(F, d) ==
    UNION { UNION { { f.data.batches[b][i] : i \in DOMAIN f.data.batches[b] } :
                      b \in DOMAIN f.data.batches } :
              f \in { g \in F : g.dir = d } }

C27_NoRowLost ==
    [][\A d \in Dirs : RowsIn(fs, d) \subseteq RowsIn(fs', d)]_vars

(***************************************************************************)
(* C28: after a termination signal has reached the watch process, under    *)
(* fair scheduling and with every running conversion ending, the process   *)
(* eventually exits: the loop of main sees the flag, the observer is       *)
(* stopped, the pool is closed and joined, whatever the jobs returned.     *)
(***************************************************************************)
C28_ShutdownCompletes ==
    (program \in WatchPrograms /\ sig_received) ~> (Statement = "exit")

(***************************************************************************)
(* C29: when the sink produced no output artifact for a partition, its     *)
(* matched source files having yielded no row batch, compaction treats the *)
(* partition as a no-op: no step taken after the sink returned removes a   *)
(* file of the partition.                                                  *)
(***************************************************************************)
SinkWasEmpty ==
    /\ rpc = "remove"
    /\ plan[cur] \notin wrote
    /\ stream_from_files(plan[cur], files) = <<>>

C29_EmptySinkIsNoOp ==
    [][SinkWasEmpty => fs' = fs]_vars

(***************************************************************************)
(* C30: the sink fixes the output schema from the first table it receives  *)
(* and casts every later table to that schema before appending it; a       *)
(* table that cannot be cast makes the write fail with an error that       *)
(* reaches the caller: whenever the sink goes on, the rows of the table    *)
(* it was handed are in the output.                                        *)
(***************************************************************************)
OutFile(F, dir) == CHOOSE f \in F : f.dir = dir /\ f.name = OutNameOf(dir)

C30_SchemaFixedThenCast ==
    [][(rpc = "stream" /\ pending # <<>>) =>
          LET dir == plan[cur]
              group == pending[1]
              first == stream_from_files(dir, files)[1]
          IN /\ (/\ group # <<>>
                 /\ writer.open
                 /\ ~Castable(group[1].schema, writer.schema)) =>
                    rpc' = "crashed"
             /\ rpc' # "crashed" =>
                    /\ rpc' = "stream"
                    /\ writer'.open
                    /\ writer'.schema = first.schema
                    /\ OutFile(fs', dir).data.schema = first.schema
                    /\ \A i \in DOMAIN group :
                          \A n \in DOMAIN group[i].rows :
                              group[i].rows[n] \in RowsIn({OutFile(fs', dir)}, dir)]_vars

\* the sink was opened with a wide schema and has appended the rows of a
\* narrow source file, cast, to the output
C30_Witness ==
    /\ rpc = "stream"
    /\ writer.open
    /\ writer.schema = "wide"
    /\ OutFile(fs, plan[cur]).data.schema = "wide"
    /\ \E f \in fs :
          /\ f.dir = plan[cur]
          /\ f.name # OutNameOf(plan[cur])
          /\ f.data.schema = "narrow"
          /\ RowsIn({f}, plan[cur]) # {}
          /\ RowsIn({f}, plan[cur]) \subseteq RowsIn({OutFile(fs, plan[cur])}, plan[cur])

(***************************************************************************)
(* C31: when a table of a stream cannot be brought to the established      *)
(* output schema, only that table is skipped: the sink goes on with the    *)
(* stream and the output written so far is kept as it is.                  *)
(***************************************************************************)
C31_MismatchSkipsBatch ==
    [][(/\ rpc = "stream"
        /\ pending # <<>>
        /\ ConcatOK(pending[1])
        /\ writer.open
        /\ ~Castable(pending[1][1].schema, writer.schema)) =>
            (rpc' = "stream" /\ fs' = fs)]_vars

(***************************************************************************)
(* C32: whenever a conversion job has ended, by returning a result, by     *)
(* returning early after a decoder error, or by raising, the temporary     *)
(* CSV file and the temporary output directory or file it created no       *)
(* longer exist.                                                           *)
(***************************************************************************)
C32_TempFilesRemoved ==
    \A j \in DOMAIN jobs : jobs[j].st = "finished" => jobs[j].tmp = {}

(***************************************************************************)
(* C33: when the source files handed to coalesce_parquets yield no row     *)
(* batch, coalesce emits no group and the sink opens no writer: no step    *)
(* of the sink creates or changes a file, and no error is raised.          *)
(***************************************************************************)
C33_EmptyInputNoOutput ==
    [][(rpc = "stream" /\ stream_from_files(plan[cur], files) = <<>>) =>
          /\ pending' = <<>>
          /\ writer' = NoWriter
          /\ fs' = fs
          /\ wrote' = wrote
          /\ rpc' \in {"stream", "remove"}]_vars

\* the sink has returned for a partition whose matched files hold no row
\* batch, having written nothing
C33_Witness ==
    /\ rpc = "remove"
    /\ files # <<>>
    /\ stream_from_files(plan[cur], files) = <<>>
    /\ plan[cur] \notin wrote
    /\ [op |-> "write", dir |-> plan[cur]] \notin touched

(***************************************************************************)
(* C34: for a non-empty input whose items all have size 0, and any         *)
(* max_size > 0, coalesce emits exactly one group, the whole input.        *)
(***************************************************************************)
AllZeroSize(s) == s # <<>> /\ \A i \in DOMAIN s : ItemSize(s[i]) = 0

C34_ZeroSizesOneGroup ==
    (AllZeroSize(items) /\ max_size > 0) =>
        /\ cpc = "loop" => groups = <<>>
        /\ cpc = "done" => groups = <<items>>

\* a finished run over several items of size 0 that emitted them as one group
C34_Witness ==
    /\ cpc = "done"
    /\ AllZeroSize(items)
    /\ Len(items) >= 3
    /\ groups = <<items>>

(***************************************************************************)
(* C35: when compaction of a partition fails part-way through writing the  *)
(* output, the partition holds exactly the files it held before the run:   *)
(* every source file, and no output artifact other than the one an         *)
(* earlier compaction left, unchanged.                                     *)
(***************************************************************************)
C35_FailedWriteLeavesNoOutput ==
    rpc = "crashed" =>
        LET dir == plan[cur]
        IN /\ \A i \in DOMAIN files : Exists(dir, files[i])
           /\ Exists(dir, OutNameOf(dir)) =>
                 DataOf(dir, OutNameOf(dir)) = OldOutput

(***************************************************************************)
(* C36: in batch conversion the single logger process handles the records  *)
(* of the shared queue in the order they were put on it; the shutdown      *)
(* sentinel is put on the queue only after every job has finished and had  *)
(* its callback run, and when the logger process has exited no record is   *)
(* left on the queue: every job's callback record was handled.             *)
(***************************************************************************)
SentinelPut == loggerp = "exited" \/ \E i \in DOMAIN logq : logq[i] = Sentinel

C36_LogOrderedAndDrained ==
    program = "batch" =>
        /\ \A i \in DOMAIN logged : logged[i].seq = i
        /\ SentinelPut =>
              \A j \in DOMAIN jobs : jobs[j].st = "finished" /\ Callbacks(j) = 1
        /\ loggerp = "exited" =>
              /\ logq = <<>>
              /\ \A j \in DOMAIN jobs :
                    \E i \in DOMAIN logged :
                        logged[i].job = j /\ logged[i].by = "callback"

\* the logger process has exited after handling the records that the
\* workers and the callbacks of two jobs put on the queue
C36_Witness ==
    /\ program = "batch"
    /\ loggerp = "exited"
    /\ Len(jobs) >= 2
    /\ Len(logged) >= 4
    /\ \E i \in DOMAIN logged : logged[i].by = "worker"

(***************************************************************************)
(* C37: a TypeError raised while an event is dispatched is caught in the   *)
(* handler's dispatch: the event submits no job, the observer keeps        *)
(* running, and every later qualifying create or move event still          *)
(* produces its job submission.                                            *)
(***************************************************************************)
RaisesTypeError(e) ==
    ~e.is_directory /\ e.event_type = "moved" /\ FsdecodeRaises(e.dest_path)

C37_TypeErrorSurvived ==
    program \in WatchPrograms =>
        /\ observer # "dead"
        /\ \A i \in DOMAIN evlog :
              RaisesTypeError(evlog[i]) =>
                  /\ SubmissionsOf(i) = {}
                  /\ \A k \in DOMAIN evlog :
                        (/\ i < k
                         /\ evlog[k].event_type \in {"created", "moved"}
                         /\ Qualifies(evlog[k])) =>
                              Cardinality(SubmissionsOf(k)) = 1

\* a rename without a destination path was dispatched and the create event
\* of a capture file that followed it submitted its job
C37_Witness ==
    /\ Len(evlog) >= 2
    /\ RaisesTypeError(evlog[1])
    /\ evlog[2] = Created(CapturePath(1))
    /\ \E j \in SubmissionsOf(2) : submitted[j].src = CapturePath(1)

(***************************************************************************)
(* C38: within one run of the compaction, a failure while compacting a     *)
(* partition does not keep the partitions that follow it in (date, hour)   *)
(* order from being compacted: the run moves on from the failed one.       *)
(***************************************************************************)
C38_FailureDoesNotStopRun ==
    (rpc = "crashed" /\ cur < Len(plan)) ~> (rpc # "crashed")

(***************************************************************************)
(* C39: compaction of a partition is streamed.  A group is written before  *)
(* anything beyond the first table of the next group is read: the tables   *)
(* read from the source files and not yet written are at most one group    *)
(* plus one look-ahead table, and nothing is read while a group waits to   *)
(* be written.                                                             *)
(***************************************************************************)
OutRows ==
    IF writer.open THEN RowsIn({OutFile(fs, plan[cur])}, plan[cur]) ELSE {}

IsWritten(t) == \A n \in DOMAIN t.rows : t.rows[n] \in OutRows

IsOneGroup(ts) ==
    \/ Len(ts) <= 1
    \/ SumSeq([i \in DOMAIN ts |-> TableLen(ts[i])]) <= MaxGroupRows

C39_Streamed ==
    /\ [](rpc = "stream" =>
          LET tables == stream_from_files(plan[cur], files)
              w == Cardinality({ i \in DOMAIN tables : IsWritten(tables[i]) })
              held == SubSeq(tables, w + 1, tpos)
          IN /\ \A i \in 1..w : IsWritten(tables[i])
             /\ (pending # <<>> /\ ~exhausted) =>
                   /\ Len(held) = Len(pending[1]) + 1
                   /\ IsOneGroup(SubSeq(held, 1, Len(held) - 1))
             /\ (pending # <<>> /\ exhausted) =>
                   Len(held) = Len(pending[1]) /\ IsOneGroup(held)
             /\ (pending = <<>> /\ ~exhausted) => IsOneGroup(held)
             /\ (pending = <<>> /\ exhausted) => held = <<>>)
    /\ [][tpos' > tpos => pending = <<>>]_vars

\* the second group of a partition waits to be written, the first is in
\* the output, one look-ahead table is held and more tables are to come
C39_Witness ==
    /\ rpc = "stream"
    /\ pending # <<>>
    /\ ~exhausted
    /\ writer.open
    /\ OutRows # {}
    /\ tpos < Len(stream_from_files(plan[cur], files))

====
